---- MODULE Spec2Model ----
(***************************************************************************)
(* Session and credential lifecycle of filmmash-api: AuthService,          *)
(* SessionService, SessionRepository, JWTService, PasswordSecurity and the *)
(* User / Session entities.                                                *)
(*                                                                         *)
(* The store is the committed content of the users and sessions tables.   *)
(* A process is one call of a service operation.  The statements of       *)
(* SessionService.create run inside its db.begin() block: they take row   *)
(* locks, are invisible to other processes and are applied together when  *)
(* the block is left.  Every other statement is applied to the store when *)
(* it is executed.  Time is a clock counted in minutes.                   *)
(***************************************************************************)
EXTENDS Integers, Sequences, FiniteSets, TLC

\* ------------------------------------------------------------------ bounds
MaxTicks == 2
MaxUsers == 2
MaxSessions == 2
MaxLimitSessions == 7
MaxLimitTicks == 1
MaxRotations == 2
MaxRefreshSessions == 1
MaxRefreshTicks == 1
MaxAccountSessions == 1
MaxLifetimeTicks == 2

\* --------------------------------------------------------- program constants
max_active_sessions == 5
ACCESS_TOKEN_EXPIRE_MINUTES == 15
REFRESH_TOKEN_EXPIRE_DAYS == 60
SESSION_EXPIRE_DAYS == 180

timedelta(days, minutes) == days * 24 * 60 + minutes
access_token_timedelta == timedelta(0, ACCESS_TOKEN_EXPIRE_MINUTES)
refresh_token_timedelta == timedelta(REFRESH_TOKEN_EXPIRE_DAYS, 0)
session_default_timedelta == timedelta(SESSION_EXPIRE_DAYS, 0)

\* ------------------------------------------------------------- input sets
Procs == {"p1", "p2"}
OneProc == {"p1"}
Emails == {"alice@example.com", "bob@example.com"}
Usernames == {"alice", "bob"}
Passwords == {"secret123", "hunter2"}
None == "None"

\* SessionDeviceInfo values sent by clients: the same browser seen from two
\* addresses, a mobile client, and a request without any client hints.
Desktop1 ==
    [device_type |-> "desktop", os |-> "Linux", browser |-> "Firefox",
     ip_address |-> "10.0.0.1", app_version |-> "120", user_agent |-> "UA1"]
Desktop2 ==
    [device_type |-> "desktop", os |-> "Linux", browser |-> "Firefox",
     ip_address |-> "10.0.0.2", app_version |-> "121", user_agent |-> "UA1"]
Mobile ==
    [device_type |-> "mobile", os |-> "Android", browser |-> None,
     ip_address |-> "10.0.0.1", app_version |-> None, user_agent |-> "UA2"]
NoHints ==
    [device_type |-> None, os |-> None, browser |-> None,
     ip_address |-> None, app_version |-> None, user_agent |-> None]
Devices == {Desktop2, Mobile}
AllDevices == {Desktop1, Desktop2, Mobile, NoHints}
OneDevice == {Desktop1}
OneEmail == {"alice@example.com"}
OneUsername == {"alice"}
OnePassword == {"secret123"}
MinuteSteps == {1}

\* CreateUserDTO / ReplaceUserDTO / UpdateUserDTO values: a record holds the
\* fields that are given; a field that is left out is None in the DTO.
LocalAlice ==
    [email |-> "alice@example.com", username |-> "alice",
     password_hash |-> [secret |-> "secret123"]]
OAuthBob ==
    [email |-> "bob@example.com", oauth_provider |-> "google", oauth_provider_id |-> "g-1"]
OAuthAlice ==
    [email |-> "alice@example.com", oauth_provider |-> "google", oauth_provider_id |-> "g-2"]
NoMethodBob == [email |-> "bob@example.com"]
NoUsernameBob == [email |-> "bob@example.com", password_hash |-> [secret |-> "hunter2"]]
InactiveAlice ==
    [email |-> "alice@example.com", username |-> "alice",
     password_hash |-> [secret |-> "secret123"], is_active |-> FALSE]
CreateUserDTOs == {LocalAlice, OAuthBob, NoMethodBob, NoUsernameBob}
ReplaceUserDTOs == {LocalAlice, OAuthAlice, OAuthBob, NoMethodBob, InactiveAlice}
UpdateUserDTOs ==
    {[is_active |-> FALSE], [username |-> "bob"], [email |-> "bob@example.com"],
     [password_hash |-> [secret |-> "hunter2"]],
     [oauth_provider |-> "google", oauth_provider_id |-> "g-1"]}
ExpirySteps == {access_token_timedelta, session_default_timedelta + access_token_timedelta}
LifetimeSteps == {access_token_timedelta, session_default_timedelta}

\* ------------------------------------------------------------------ state
VARIABLES
    users,      \* users table: user id -> row
    nextUid,    \* next unused user id (uuid4 default of User.id)
    sessions,   \* sessions table: session id -> row
    now,        \* the clock, in minutes
    ticks,      \* how many times the clock has advanced
    nextSid,    \* next unused session id (uuid4 default of Session.id)
    nextSalt,   \* next unused argon2 salt
    procs,      \* one record per running call
    issued,     \* every token handed to a client so far
    past_hashes \* session id -> the refresh_token_hash values it held before

vars == <<users, nextUid, sessions, now, ticks, nextSid, nextSalt, procs, issued, past_hashes>>

\* ------------------------------------------------------- PasswordSecurity
\* Variant: a hash without salt, the same for the same token.
generate_token_hash_unsalted(token, salt) == [token |-> token, salt |-> 0]

\* pwd_context.hash draws a new random salt on every call.
generate_token_hash(token, salt) == [token |-> token, salt |-> salt]

NoPasswordHash == [secret |-> None]

generate_password_hash(password) == [secret |-> password]

\* Variant: every password is accepted.
verify_password_any(plain_password, hashed_password) == TRUE

verify_password(plain_password, hashed_password) ==
    hashed_password.secret = plain_password

\* ------------------------------------------------------------- JWTService
NoToken == [type |-> "none"]
NoHash == [token |-> NoToken, salt |-> 0]

\* JWTService.hash_token: its own argon2 context, a new salt on every call.
hash_token(token, salt) == [token |-> token, salt |-> salt]

calculates_expiration_date(token_type, t) ==
    IF token_type = "access" THEN t + access_token_timedelta
    ELSE t + refresh_token_timedelta

create_token(user_id, session_id, token_type, t) ==
    [sub |-> user_id,
     exp |-> calculates_expiration_date(token_type, t),
     iat |-> t,
     iss |-> "filmmash-api",
     aud |-> "filmmash-api-client",
     type |-> token_type,
     sid |-> session_id]

create_access_token(user_id, session_id, t) ==
    create_token(user_id, session_id, "access", t)

create_refresh_token(user_id, session_id, t) ==
    create_token(user_id, session_id, "refresh", t)

\* ------------------------------------------------------- SessionDeviceInfo
\* Variant: the address of the client is part of the fingerprint.
fingerprint_with_ip(device_info) ==
    SelectSeq(<<device_info.device_type, device_info.os, device_info.browser,
                device_info.ip_address>>,
              LAMBDA v : v # None)

\* " | ".join of the values that are not None: the positions are lost.
fingerprint(device_info) ==
    SelectSeq(<<device_info.device_type, device_info.os, device_info.browser>>,
              LAMBDA v : v # None)

\* ------------------------------------------------------------------ store
NoUser ==
    [id |-> 0, email |-> None, username |-> None, password_hash |-> NoPasswordHash,
     oauth_provider |-> None, oauth_provider_id |-> None, is_active |-> FALSE,
     deleted_at |-> <<>>]

NoSession ==
    [id |-> 0, user_id |-> 0, refresh_token_hash |-> NoHash, status |-> None,
     device_info |-> NoHints, expires_at |-> 0, last_used_at |-> 0,
     created_at |-> 0, revoked_at |-> <<>>]

UserIds == DOMAIN users
SessionIds == DOMAIN sessions

get_by_email(email) ==
    IF \E u \in UserIds : users[u].email = email
    THEN users[CHOOSE u \in UserIds : users[u].email = email]
    ELSE NoUser

user_get_by_id(id) == IF id \in UserIds THEN users[id] ELSE NoUser

session_get_by_id(id) == IF id \in SessionIds THEN sessions[id] ELSE NoSession

ActiveOf(S, user_id) ==
    {s \in DOMAIN S : S[s].user_id = user_id /\ S[s].status = "active"}

count_active_sessions_per_user(user_id) == Cardinality(ActiveOf(sessions, user_id))

\* Variant: revoked_at is set by every UPDATE that writes status revoked.
set_session_revoked_at_always(old, new, t) ==
    IF new.status = "revoked" THEN [new EXCEPT !.revoked_at = <<t>>] ELSE new

\* set_session_revoked_at trigger, BEFORE UPDATE ON sessions.  The column is
\* nullable: <<>> is NULL and <<t>> the time t.
set_session_revoked_at(old, new, t) ==
    IF new.status = "revoked" /\ old.status # "revoked"
    THEN [new EXCEPT !.revoked_at = <<t>>]
    ELSE new

\* Row locks held by the open transactions of the other processes.
LockedByOthers(p) == UNION {procs[q].locked : q \in Procs \ {p}}

\* ------------------------------------------------------------ processes
NoResult == [kind |-> "none", err |-> None,
             access_token |-> NoToken, refresh_token |-> NoToken,
             user |-> NoUser, session |-> NoSession,
             valid |-> FALSE]          \* the value of a call that returns a bool

Raise(err) == [NoResult EXCEPT !.kind = "error", !.err = err]

Tokens(access_token, refresh_token) ==
    [NoResult EXCEPT !.kind = "ok", !.access_token = access_token,
                     !.refresh_token = refresh_token]

NoDTO == [none |-> None]

IdleProc ==
    [op |-> "idle", pc |-> "idle",
     user_id |-> 0,            \* the user the call acts for
     dto |-> NoSession,        \* CreateSessionDTO of init_session
     locked |-> {},            \* rows locked by the open transaction
     to_revoke |-> 0,          \* session_to_revoke, flushed but not committed
     snap |-> NoSession,       \* Session entity held by the caller
     presented |-> NoToken,    \* token sent with the request
     device_info |-> NoHints,
     at |-> 0,                 \* time of the call, kept by revoke
     udto |-> NoDTO,           \* CreateUserDTO / UpdateUserDTO / ReplaceUserDTO sent
     result |-> NoResult]

\* A process takes a new call when it runs none; the result of its last call
\* stays with it until then.
Ready(p) == procs[p].pc \in {"idle", "done"}

\* Session ids are handed out up to maxSid: a call that is going to create a
\* session starts only while an id is left for it.
Creating == {q \in Procs : procs[q].pc \in {"create", "add"}}

CanCreate(maxSid) == nextSid + Cardinality(Creating) <= maxSid

Init ==
    /\ users = <<>>
    /\ nextUid = 1
    /\ sessions = <<>>
    /\ now = 0
    /\ ticks = 0
    /\ nextSid = 1
    /\ nextSalt = 1
    /\ procs = [p \in Procs |-> IdleProc]
    /\ issued = {}
    /\ past_hashes = <<>>

\* -------------------------------------------------------------- the clock
Tick(steps, maxTicks) ==
    /\ ticks < maxTicks
    /\ \E d \in steps : now' = now + d
    /\ ticks' = ticks + 1
    /\ UNCHANGED <<users, nextUid, sessions, nextSid, nextSalt, procs, issued, past_hashes>>

\* ---------------------------------------------- SessionService.init_session
\* Lines 33-39: the DTO is built before the transaction is opened.
CreateSessionDTO(user_id, device_info, t) ==
    [NoSession EXCEPT !.user_id = user_id, !.status = "active",
                      !.expires_at = t + session_default_timedelta,
                      !.device_info = device_info, !.last_used_at = t]

\* The fields of values written over those of row.
Merge(row, values) ==
    [f \in DOMAIN row |-> IF f \in DOMAIN values THEN values[f] ELSE row[f]]

\* ------------------------------------------------ CreateUserDTO, UserRepository
\* CreateUserDTO.validate_auth_method: TRUE when the DTO is accepted.
Given(dto, field) == field \in DOMAIN dto

\* Variant: the DTO is not validated.
validate_auth_method_skipped(dto) == TRUE

validate_auth_method(dto) ==
    LET has_password == Given(dto, "password_hash")
        has_username == Given(dto, "username")
        has_oauth == Given(dto, "oauth_provider") /\ Given(dto, "oauth_provider_id")
    IN ~(~has_password /\ ~has_oauth) /\ ~(has_password /\ ~has_username)

\* dto.model_dump(exclude_none=True): the fields that are given.
model_dump_exclude_none(dto) == [f \in DOMAIN dto |-> dto[f]]

\* dto.model_dump(exclude_none=False) of a ReplaceUserDTO: every field, None for
\* the fields left out, is_active with its default True.
model_dump(dto) ==
    [f \in {"email", "username", "password_hash", "oauth_provider",
            "oauth_provider_id", "is_active"} |->
        IF f \in DOMAIN dto THEN dto[f]
        ELSE IF f = "is_active" THEN TRUE
        ELSE IF f = "password_hash" THEN NoPasswordHash
        ELSE None]

\* The unique columns of users: email, username, oauth_provider_id (NULLs never
\* collide).
unique_violation(U, row) ==
    \E u \in DOMAIN U :
        /\ u # row.id
        /\ \/ U[u].email = row.email
           \/ (row.username # None /\ U[u].username = row.username)
           \/ (row.oauth_provider_id # None
               /\ U[u].oauth_provider_id = row.oauth_provider_id)

\* Variant: is_active without its default True.
insert_values_inactive(id, dto) ==
    Merge([NoUser EXCEPT !.id = id], model_dump_exclude_none(dto))

\* INSERT INTO users VALUES (model_dump(exclude_none=True)) with the column
\* defaults: the row stored for a new user.
insert_values(id, dto) ==
    Merge([NoUser EXCEPT !.id = id, !.is_active = TRUE], model_dump_exclude_none(dto))

\* ------------------------------------------------------ AuthService.login
login(p, emails, passwords, devices, maxSid) ==
    /\ Ready(p)
    /\ \E email \in emails, password \in passwords, device_info \in devices :
         LET user == get_by_email(email) IN
         /\ (user # NoUser /\ verify_password(password, user.password_hash))
               => CanCreate(maxSid)
         /\ procs' = [procs EXCEPT ![p] =
            IF user = NoUser
            THEN [IdleProc EXCEPT !.op = "login", !.pc = "done",
                                  !.result = Raise("UserNotFoundError")]
            ELSE IF user.password_hash = NoPasswordHash
            THEN [IdleProc EXCEPT !.op = "login", !.pc = "done", !.user_id = user.id,
                                  !.result = Raise("UserPasswordNotConfiguredError")]
            ELSE IF ~verify_password(password, user.password_hash)
            THEN [IdleProc EXCEPT !.op = "login", !.pc = "done", !.user_id = user.id,
                                  !.result = Raise("InvalidPasswordError")]
            ELSE [IdleProc EXCEPT !.op = "login", !.pc = "create", !.user_id = user.id,
                                  !.device_info = device_info,
                                  !.dto = CreateSessionDTO(user.id, device_info, now)]]
    /\ UNCHANGED <<users, nextUid, sessions, now, ticks, nextSid, nextSalt, issued, past_hashes>>

\* --------------------------------------------------- AuthService.register
\* UserRepository.create inserts and commits; a unique violation on email or
\* username is rolled back and re-raised.
register(p, emails, usernames, passwords, devices, maxSid) ==
    /\ Ready(p)
    /\ \E email \in emails, username \in usernames, password \in passwords,
          device_info \in devices :
         LET id == nextUid
             create_user_dto == [email |-> email, username |-> username,
                                 password_hash |-> generate_password_hash(password)]
             row == insert_values(id, create_user_dto)
             taken == unique_violation(users, row)
         IN IF taken
            THEN /\ procs' = [procs EXCEPT ![p] =
                        [IdleProc EXCEPT !.op = "register", !.pc = "done",
                                         !.result = Raise("IntegrityError")]]
                 /\ users' = users
                 /\ nextUid' = nextUid
            ELSE /\ id <= MaxUsers
                 /\ CanCreate(maxSid)
                 /\ users' = (id :> row) @@ users
                 /\ nextUid' = nextUid + 1
                 /\ procs' = [procs EXCEPT ![p] =
                        [IdleProc EXCEPT !.op = "register", !.pc = "create",
                                         !.user_id = id, !.device_info = device_info,
                                         !.dto = CreateSessionDTO(id, device_info, now)]]
    /\ UNCHANGED <<sessions, now, ticks, nextSid, nextSalt, issued, past_hashes>>

\* ------------------------- SessionRepository.free_active_sessions_limit
\* Variant: the rows locked by other transactions are not left out.
select_for_update_unlocked(S, user_id, limit, lockedByOthers) ==
    LET cand == ActiveOf(S, user_id) IN
    IF Cardinality(cand) < limit
    THEN {<<cand, 0>>}
    ELSE {pair \in (SUBSET cand) \X cand :
             /\ pair[2] \in pair[1]
             /\ Cardinality(pair[1]) = limit
             /\ \A x \in pair[1], y \in cand \ pair[1] :
                   S[x].last_used_at <= S[y].last_used_at
             /\ \A x \in pair[1] : S[x].last_used_at <= S[pair[2]].last_used_at}

\* SELECT ... WHERE user_id = :u AND status = 'active' ORDER BY last_used_at
\* OFFSET limit - 1 LIMIT 1 FOR UPDATE SKIP LOCKED.  Rows locked by another
\* transaction are left out; the rows passed over by OFFSET are locked with the
\* row returned; rows with equal last_used_at come in any order.  The result is
\* the set of <<locked rows, row returned (0 for none)>> the statement can give.
select_for_update_skip_locked(S, user_id, limit, lockedByOthers) ==
    LET cand == ActiveOf(S, user_id) \ lockedByOthers IN
    IF Cardinality(cand) < limit
    THEN {<<cand, 0>>}
    ELSE {<<L, r>> : L \in {X \in SUBSET cand :
                              /\ Cardinality(X) = limit
                              /\ \A x \in X, y \in cand \ X :
                                    S[x].last_used_at <= S[y].last_used_at},
                     r \in cand} \cap
         {pair \in (SUBSET cand) \X cand :
             /\ pair[2] \in pair[1]
             /\ \A x \in pair[1] : S[x].last_used_at <= S[pair[2]].last_used_at}

free_active_sessions_limit(p) ==
    /\ procs[p].pc = "create"
    /\ \E pair \in select_for_update_skip_locked(
                      sessions, procs[p].user_id, max_active_sessions, LockedByOthers(p)) :
         procs' = [procs EXCEPT ![p].pc = "add",
                                ![p].locked = pair[1],
                                ![p].to_revoke = pair[2]]
    /\ UNCHANGED <<users, nextUid, sessions, now, ticks, nextSid, nextSalt, issued, past_hashes>>

\* ------------------------------------------------- SessionService.create
\* Lines 48-54 and the end of the db.begin() block: repo.add, create_refresh_token,
\* hash_token, the flush that inserts the row, and the commit of the eviction
\* and the insert together, which releases the row locks.  The insert is seen by
\* no other process before the commit.  init_session then issues the access
\* token and returns both tokens.
\* Variant: the eviction is not written.
Evicted_dropped(S, to_revoke, t) == S

Evicted(S, to_revoke, t) ==
    [s \in DOMAIN S |->
        IF s = to_revoke
        THEN set_session_revoked_at(S[s], [S[s] EXCEPT !.status = "revoked"], t)
        ELSE S[s]]

create_commit(p) ==
    /\ procs[p].pc = "add"
    /\ LET refresh_token == create_refresh_token(procs[p].user_id, nextSid, now)
           access_token == create_access_token(procs[p].user_id, nextSid, now)
           model == [procs[p].dto EXCEPT
                        !.id = nextSid,
                        !.refresh_token_hash = hash_token(refresh_token, nextSalt),
                        !.created_at = now]
       IN /\ sessions' = (nextSid :> model) @@ Evicted(sessions, procs[p].to_revoke, now)
          /\ past_hashes' = (nextSid :> {}) @@ past_hashes
          /\ issued' = issued \cup {access_token, refresh_token}
          /\ procs' = [procs EXCEPT ![p] =
                [IdleProc EXCEPT
                    !.op = procs[p].op, !.pc = "done", !.user_id = procs[p].user_id,
                    !.result = Tokens(access_token, refresh_token)]]
    /\ nextSid' = nextSid + 1
    /\ nextSalt' = nextSalt + 1
    /\ UNCHANGED <<users, nextUid, now, ticks>>

\* A statement of the db.begin() block of SessionService.create fails in the
\* database: the block is left by the exception, the transaction is rolled
\* back, its row locks are released and the exception leaves init_session and
\* the login or register that called it.
create_abort(p) ==
    /\ procs[p].pc \in {"create", "add"}
    /\ procs' = [procs EXCEPT ![p] =
            [IdleProc EXCEPT
                !.op = procs[p].op, !.pc = "done", !.user_id = procs[p].user_id,
                !.result = Raise("SQLAlchemyError")]]
    /\ UNCHANGED <<users, nextUid, sessions, now, ticks, nextSid, nextSalt, issued, past_hashes>>

\* --------------------------------------------------------------- entities
\* Session.is_expired, is_active, is_valid
is_expired(session, t) == t > session.expires_at

is_active(session) == session.status = "active"

is_valid(session, t) == is_active(session) /\ ~is_expired(session, t)

\* User.can_oauth_login, can_local_login, can_login
can_oauth_login(user) ==
    user.oauth_provider # None /\ user.oauth_provider_id # None /\ user.is_active

can_local_login(user) ==
    user.password_hash # NoPasswordHash /\ user.username # None /\ user.is_active

can_login(user) ==
    IF ~user.is_active THEN FALSE
    ELSE can_local_login(user) \/ can_oauth_login(user)

\* Session.matches_device_fingerprint: the fingerprint of the device of the
\* request against the fingerprint recorded on the session.
matches_device_fingerprint(session, device_info) ==
    fingerprint(session.device_info) = fingerprint(device_info)

\* ------------------------------------------------------ JWTService, decoding
\* jwt.decode checks the signature and the exp claim; every token of `issued`
\* carries a valid signature, any other value does not.
Decoded(payload) == [ok |-> TRUE, payload |-> payload, error |-> None]
DecodeError(message) == [ok |-> FALSE, payload |-> NoToken, error |-> message]

decode_token(token, t) ==
    IF token \notin issued THEN DecodeError("Invalid token")
    ELSE IF token.exp <= t THEN DecodeError("Token has expired")
    ELSE Decoded(token)

\* Variant: the type claim is not looked at.
decode_access_token_untyped(token, t) == decode_token(token, t)

decode_access_token(token, t) ==
    LET d == decode_token(token, t) IN
    IF d.ok /\ d.payload.type # "access" THEN DecodeError("Invalid token type") ELSE d

decode_refresh_token(token, t) ==
    LET d == decode_token(token, t) IN
    IF d.ok /\ d.payload.type # "refresh" THEN DecodeError("Invalid token type") ELSE d

\* payload[key] of the decoded claims: KeyError when the claim is absent.
HasClaim(payload, key) == key \in DOMAIN payload

\* ------------------------------------------------ SessionRepository.update
\* UPDATE sessions SET <the fields of the DTO that are not None> WHERE id = :id,
\* with the revoked_at trigger; no row is touched when the id is unknown.
update(S, session_id, values, t) ==
    IF session_id \in DOMAIN S
    THEN [S EXCEPT ![session_id] =
             set_session_revoked_at(S[session_id], Merge(S[session_id], values), t)]
    ELSE S

\* Variant: the status is left as it is.
revoke_skipped(S, session_id, t) == S

revoke(S, session_id, t) == update(S, session_id, [status |-> "revoked"], t)

\* An UPDATE waits while another transaction holds the lock of the row.
CanWrite(p, session_id) == session_id \notin LockedByOthers(p)

\* How many times the refresh_token_hash of a session has been replaced.
Rotations(session_id) ==
    IF session_id \in DOMAIN past_hashes THEN Cardinality(past_hashes[session_id]) ELSE 0

\* The hash a row held is remembered when an UPDATE replaces it.
Remember(S, T) ==
    [s \in DOMAIN S |->
        IF T[s].refresh_token_hash # S[s].refresh_token_hash
        THEN past_hashes[s] \cup {S[s].refresh_token_hash}
        ELSE past_hashes[s]]

\* ------------------------------------------------- the caller's entities
\* A caller obtains the Session entity (get_by_id) and the current user before
\* it calls refresh_session or SessionService.refresh; the entity is not read
\* again by those calls.
get_session(p) ==
    /\ Ready(p)
    /\ \E sid \in SessionIds, uid \in UserIds :
         procs' = [procs EXCEPT ![p] =
            [IdleProc EXCEPT !.op = "get_by_id", !.pc = "loaded",
                             !.user_id = uid, !.snap = session_get_by_id(sid)]]
    /\ UNCHANGED <<users, nextUid, sessions, now, ticks, nextSid, nextSalt, issued, past_hashes>>

\* ------------------------------------------------ SessionService.refresh
\* Variant: the UPDATE also moves expires_at forward by time_delta.
refresh_extending(S, session, new_refresh_token_hash, time_delta, t) ==
    IF session.expires_at < t
    THEN [err |-> "SessionExpiredError", store |-> S]
    ELSE IF session.id \notin DOMAIN S
    THEN [err |-> "SessionNotFoundError", store |-> S]
    ELSE [err |-> None,
          store |-> update(S, session.id,
                           [refresh_token_hash |-> new_refresh_token_hash,
                            status |-> "active",
                            last_used_at |-> t,
                            expires_at |-> session.expires_at + time_delta], t)]

\* Variant: expires_at is not looked at.
refresh_after_expiry(S, session, new_refresh_token_hash, time_delta, t) ==
    IF session.id \notin DOMAIN S
    THEN [err |-> "SessionNotFoundError", store |-> S]
    ELSE [err |-> None,
          store |-> update(S, session.id,
                           [refresh_token_hash |-> new_refresh_token_hash,
                            status |-> "active",
                            last_used_at |-> t], t)]

\* The result of refresh(session, new_refresh_token_hash, time_delta) at time t:
\* the error raised, or the store after the UPDATE.
refresh(S, session, new_refresh_token_hash, time_delta, t) ==
    IF session.expires_at < t
    THEN [err |-> "SessionExpiredError", store |-> S]
    ELSE IF session.id \notin DOMAIN S
    THEN [err |-> "SessionNotFoundError", store |-> S]
    ELSE [err |-> None,
          store |-> update(S, session.id,
                           [refresh_token_hash |-> new_refresh_token_hash,
                            status |-> "active",
                            last_used_at |-> t], t)]

\* SessionService.refresh called with the hash of a newly issued refresh token of
\* the session, made as AuthService makes it (lines 111-114).  A salt counts as
\* used when the hash made with it is stored.
session_refresh(p, maxRotations) ==
    /\ procs[p].pc = "loaded"
    /\ CanWrite(p, procs[p].snap.id)
    /\ LET session == procs[p].snap
           new_refresh_token == create_refresh_token(session.user_id, session.id, now)
           new_hash == generate_token_hash(new_refresh_token, nextSalt)
           r == refresh(sessions, session, new_hash, refresh_token_timedelta, now)
       IN /\ r.err = None => Rotations(session.id) < maxRotations
          /\ sessions' = r.store
          /\ past_hashes' = Remember(sessions, r.store)
          /\ nextSalt' = IF r.err = None THEN nextSalt + 1 ELSE nextSalt
          /\ issued' = IF r.err = None THEN issued \cup {new_refresh_token} ELSE issued
          /\ procs' = [procs EXCEPT ![p].op = "refresh", ![p].pc = "done",
                          ![p].result =
                             IF r.err = None
                             THEN [NoResult EXCEPT !.kind = "ok",
                                                   !.refresh_token = new_refresh_token,
                                                   !.session = r.store[session.id]]
                             ELSE Raise(r.err)]
    /\ UNCHANGED <<users, nextUid, now, ticks, nextSid>>

\* ------------------------------------- AuthService._validate_refresh_request
\* Variant: every request is accepted.
validate_refresh_request_accepting(session, current_user_id, refresh_token, device_info, salt, t) ==
    "True"

\* "True", "False", or the name of the exception that leaves the method.
validate_refresh_request(session, current_user_id, refresh_token, device_info, salt, t) ==
    LET current_token_hash == generate_token_hash(refresh_token, salt) IN
    IF session.refresh_token_hash # current_token_hash THEN "False"
    ELSE IF ~matches_device_fingerprint(session, device_info) THEN "False"
    ELSE LET d == decode_refresh_token(refresh_token, t) IN
         IF ~d.ok THEN "ValueError"
         ELSE IF ~HasClaim(d.payload, "user_id") THEN "KeyError"
         ELSE IF d.payload["user_id"] = current_user_id THEN "True" ELSE "False"

\* ------------------------------------------- AuthService.refresh_session
refresh_session(p, devices, maxRotations) ==
    /\ procs[p].pc = "loaded"
    /\ CanWrite(p, procs[p].snap.id)
    /\ \E refresh_token \in issued, device_info \in devices :
         LET session == procs[p].snap
             valid_refresh == validate_refresh_request(
                  session, procs[p].user_id, refresh_token, device_info, nextSalt, now)
             access_token == create_access_token(session.user_id, session.id, now)
             new_refresh_token == create_refresh_token(session.user_id, session.id, now)
             new_hash == generate_token_hash(new_refresh_token, nextSalt)
             r == refresh(sessions, session, new_hash, refresh_token_timedelta, now)
             done == [procs[p] EXCEPT !.op = "refresh_session", !.pc = "done",
                                      !.presented = refresh_token,
                                      !.device_info = device_info]
         IN IF valid_refresh = "False"
            THEN /\ sessions' = revoke(sessions, session.id, now)
                 /\ procs' = [procs EXCEPT ![p] =
                        [done EXCEPT !.result = Raise("InvalidSessionError")]]
                 /\ UNCHANGED <<issued, past_hashes, nextSalt>>
            ELSE IF valid_refresh # "True"
            THEN /\ procs' = [procs EXCEPT ![p] =
                        [done EXCEPT !.result = Raise(valid_refresh)]]
                 /\ UNCHANGED <<sessions, issued, past_hashes, nextSalt>>
            ELSE /\ r.err = None => Rotations(session.id) < maxRotations
                 /\ sessions' = r.store
                 /\ past_hashes' = Remember(sessions, r.store)
                 /\ nextSalt' = IF r.err = None THEN nextSalt + 1 ELSE nextSalt
                 /\ issued' = IF r.err = None
                              THEN issued \cup {access_token, new_refresh_token}
                              ELSE issued
                 /\ procs' = [procs EXCEPT ![p] =
                        [done EXCEPT !.result =
                            IF r.err = None THEN Tokens(access_token, new_refresh_token)
                            ELSE Raise(r.err)]]
    /\ UNCHANGED <<users, nextUid, now, ticks, nextSid>>

\* --------------------------------------------------- AuthService.logout
logout(p) ==
    /\ Ready(p)
    /\ \E sid \in SessionIds :
         /\ CanWrite(p, sid)
         /\ sessions' = revoke(sessions, sid, now)
         /\ procs' = [procs EXCEPT ![p] =
               [IdleProc EXCEPT !.op = "logout", !.pc = "done",
                                !.snap = sessions[sid],
                                !.result = [NoResult EXCEPT !.kind = "ok"]]]
    /\ UNCHANGED <<users, nextUid, now, ticks, nextSid, nextSalt, issued, past_hashes>>

\* ------------------------------------------------- SessionService.revoke
\* revoke(session_id) for a known or an unknown id: the row after the UPDATE is
\* returned, None when there is no row.
session_revoke(p, ids) ==
    /\ Ready(p)
    /\ \E sid \in ids :
         /\ CanWrite(p, sid)
         /\ sessions' = revoke(sessions, sid, now)
         /\ procs' = [procs EXCEPT ![p] =
               [IdleProc EXCEPT !.op = "revoke", !.pc = "done", !.at = now,
                                !.snap = session_get_by_id(sid),
                                !.result = [NoResult EXCEPT
                                    !.kind = "ok",
                                    !.session = IF sid \in SessionIds
                                                THEN revoke(sessions, sid, now)[sid]
                                                ELSE NoSession]]]
    /\ UNCHANGED <<users, nextUid, now, ticks, nextSid, nextSalt, issued, past_hashes>>

\* -------------------------------------------- SessionService.mark_expired
mark_expired(p) ==
    /\ Ready(p)
    /\ \E sid \in SessionIds :
         /\ CanWrite(p, sid)
         /\ sessions' = update(sessions, sid, [status |-> "expired"], now)
         /\ procs' = [procs EXCEPT ![p] =
               [IdleProc EXCEPT !.op = "mark_expired", !.pc = "done",
                                !.snap = sessions[sid],
                                !.result = [NoResult EXCEPT !.kind = "ok"]]]
    /\ UNCHANGED <<users, nextUid, now, ticks, nextSid, nextSalt, issued, past_hashes>>

\* ------------------------------ AuthService.load_current_user_session
\* Variant: the user and the session named by the token are returned unchecked.
load_result_unchecked(access_token, t) ==
    [NoResult EXCEPT !.kind = "ok",
                     !.user = user_get_by_id(access_token.sub),
                     !.session = session_get_by_id(access_token.sid)]

\* The result of load_current_user_session(access_token) at time t.
load_result(access_token, t) ==
    LET d == decode_access_token(access_token, t) IN
    IF ~d.ok THEN Raise("InvalidCredentialsError")
    ELSE IF ~HasClaim(d.payload, "user_id") \/ ~HasClaim(d.payload, "session_id")
    THEN Raise("KeyError")
    ELSE LET user_id == d.payload["user_id"]
             session_id == d.payload["session_id"]
             user == user_get_by_id(user_id)
             session == session_get_by_id(session_id)
         IN IF user = NoUser THEN Raise("UserNotFoundError")
            ELSE IF ~can_login(user) THEN Raise("InvalidCredentialsError")
            ELSE IF session = NoSession THEN Raise("SessionNotFoundError")
            ELSE IF ~is_valid(session, t) THEN Raise("InvalidSessionError")
            ELSE IF user_id # session.user_id THEN Raise("InvalidCredentialsError")
            ELSE [NoResult EXCEPT !.kind = "ok", !.user = user, !.session = session]

load_current_user_session(p) ==
    /\ Ready(p)
    /\ \E access_token \in issued :
         procs' = [procs EXCEPT ![p] =
            [IdleProc EXCEPT !.op = "load_current_user_session", !.pc = "done",
                             !.presented = access_token,
                             !.result = load_result(access_token, now)]]
    /\ UNCHANGED <<users, nextUid, sessions, now, ticks, nextSid, nextSalt, issued, past_hashes>>

\* ---------------------------------------------------- UserService.create
user_create(p, dtos) ==
    /\ Ready(p)
    /\ \E dto \in dtos :
         LET row == insert_values(nextUid, dto)
             done == [IdleProc EXCEPT !.op = "create", !.pc = "done", !.udto = dto]
         IN IF ~validate_auth_method(dto)
            THEN /\ procs' = [procs EXCEPT ![p] =
                        [done EXCEPT !.result = Raise("ValueError")]]
                 /\ UNCHANGED <<users, nextUid>>
            ELSE IF unique_violation(users, row)
            THEN /\ procs' = [procs EXCEPT ![p] =
                        [done EXCEPT !.result = Raise("IntegrityError")]]
                 /\ UNCHANGED <<users, nextUid>>
            ELSE /\ nextUid <= MaxUsers
                 /\ users' = (nextUid :> row) @@ users
                 /\ nextUid' = nextUid + 1
                 /\ procs' = [procs EXCEPT ![p] =
                        [done EXCEPT !.user_id = nextUid,
                                     !.result = [NoResult EXCEPT !.kind = "ok",
                                                                 !.user = row]]]
    /\ UNCHANGED <<sessions, now, ticks, nextSid, nextSalt, issued, past_hashes>>

\* ---------------------------------------------------- UserService.update
\* UPDATE users SET <values> WHERE id = :id AND (<some column differs>): the
\* store after the statement.
user_update_rows(U, id, values) ==
    [U EXCEPT ![id] = Merge(U[id], values)]

\* The result of UserService.update(id, dto) and the store after it; replace
\* tells a ReplaceUserDTO from an UpdateUserDTO.
update_user(U, id, dto, replace) ==
    IF id \notin DOMAIN U THEN [err |-> None, found |-> FALSE, store |-> U]
    ELSE LET user == U[id]
             temp_user == Merge(user, model_dump_exclude_none(dto))
             update_values == IF replace THEN model_dump(dto)
                              ELSE model_dump_exclude_none(dto)
             after == user_update_rows(U, id, update_values)
         IN IF ~can_login(temp_user)
            THEN [err |-> "UserCannotLoseLoginMethodError", found |-> TRUE, store |-> U]
            ELSE IF after = U
            THEN [err |-> None, found |-> TRUE, store |-> U]
            ELSE IF unique_violation(U, after[id])
            THEN [err |-> "IntegrityError", found |-> TRUE, store |-> U]
            ELSE [err |-> None, found |-> TRUE, store |-> after]

user_update(p, ids, updates, replaces) ==
    /\ Ready(p)
    /\ \E id \in ids, replace \in BOOLEAN :
       \E dto \in (IF replace THEN {d \in replaces : validate_auth_method(d)}
                   ELSE updates) :
         LET r == update_user(users, id, dto, replace) IN
         /\ users' = r.store
         /\ procs' = [procs EXCEPT ![p] =
               [IdleProc EXCEPT
                  !.op = IF replace THEN "replace" ELSE "update", !.pc = "done",
                  !.user_id = id, !.udto = dto,
                  !.result = IF r.err # None THEN Raise(r.err)
                             ELSE IF ~r.found THEN [NoResult EXCEPT !.kind = "ok"]
                             ELSE [NoResult EXCEPT !.kind = "ok", !.user = r.store[id]]]]
    /\ UNCHANGED <<nextUid, sessions, now, ticks, nextSid, nextSalt, issued, past_hashes>>

\* ---------------------------------------------------- UserService.delete
\* UserRepository.soft_delete: deleted_at = now(), is_active = False.
soft_delete(p, ids) ==
    /\ Ready(p)
    /\ \E id \in ids :
         /\ users' = IF id \in UserIds
                     THEN [users EXCEPT ![id].deleted_at = <<now>>,
                                        ![id].is_active = FALSE]
                     ELSE users
         /\ procs' = [procs EXCEPT ![p] =
               [IdleProc EXCEPT
                  !.op = "delete", !.pc = "done", !.user_id = id,
                  !.result = [NoResult EXCEPT !.kind = "ok",
                                              !.user = user_get_by_id(id)']]]
    /\ UNCHANGED <<nextUid, sessions, now, ticks, nextSid, nextSalt, issued, past_hashes>>

\* ------------------------------------------------ UserService.hard_delete
\* DELETE FROM users WHERE id = :id.  sessions.user_id REFERENCES users(id)
\* without ON DELETE: the statement fails while a session of the user exists,
\* and UserRepository.hard_delete rolls back and re-raises.
SessionsOf(S, user_id) == {s \in DOMAIN S : S[s].user_id = user_id}

hard_delete(p, ids) ==
    /\ Ready(p)
    /\ \E id \in ids :
         LET done == [IdleProc EXCEPT !.op = "hard_delete", !.pc = "done",
                                      !.user_id = id]
         IN IF id \in UserIds /\ SessionsOf(sessions, id) # {}
            THEN /\ users' = users
                 /\ procs' = [procs EXCEPT ![p] =
                        [done EXCEPT !.result = Raise("IntegrityError")]]
            ELSE /\ users' = [u \in UserIds \ {id} |-> users[u]]
                 /\ procs' = [procs EXCEPT ![p] =
                        [done EXCEPT !.result =
                            [NoResult EXCEPT !.kind = "ok",
                                             !.user = user_get_by_id(id)]]]
    /\ UNCHANGED <<nextUid, sessions, now, ticks, nextSid, nextSalt, issued, past_hashes>>

\* ----------------------------------------------- SessionService.mark_used
mark_used(p) ==
    /\ Ready(p)
    /\ \E sid \in SessionIds :
         /\ CanWrite(p, sid)
         /\ sessions' = update(sessions, sid, [last_used_at |-> now], now)
         /\ procs' = [procs EXCEPT ![p] =
               [IdleProc EXCEPT !.op = "mark_used", !.pc = "done", !.at = now,
                                !.snap = sessions[sid],
                                !.result = [NoResult EXCEPT !.kind = "ok"]]]
    /\ UNCHANGED <<users, nextUid, now, ticks, nextSid, nextSalt, issued, past_hashes>>

\* ------------------------------------------------------ Session.is_valid
\* is_valid() called on the Session entity the caller holds.
session_is_valid(p) ==
    /\ procs[p].pc = "loaded"
    /\ procs' = [procs EXCEPT ![p].op = "is_valid", ![p].pc = "done", ![p].at = now,
                    ![p].result = [NoResult EXCEPT
                                     !.kind = "ok",
                                     !.valid = is_valid(procs[p].snap, now)]]
    /\ UNCHANGED <<users, nextUid, sessions, now, ticks, nextSid, nextSalt, issued, past_hashes>>

\* ------------------------------------------------------- specifications
\* Logins of one user from one device, up to two at a time, with the clock
\* advancing by minutes: the session limit and its eviction.
NextLimit ==
    \/ \E p \in Procs : register(p, OneEmail, OneUsername, OnePassword, OneDevice, MaxLimitSessions)
    \/ \E p \in Procs : login(p, OneEmail, OnePassword, OneDevice, MaxLimitSessions)
    \/ \E p \in Procs : free_active_sessions_limit(p)
    \/ \E p \in Procs : create_commit(p)
    \/ Tick(MinuteSteps, MaxLimitTicks)

SpecLimit == Init /\ [][NextLimit]_vars

\* Refresh, logout and expiry of one session, with two callers working on the
\* same session at the same time.
NextRefresh ==
    \/ \E p \in Procs : register(p, OneEmail, OneUsername, OnePassword, OneDevice, MaxRefreshSessions)
    \/ \E p \in Procs : login(p, OneEmail, OnePassword, Devices, MaxRefreshSessions)
    \/ \E p \in Procs : free_active_sessions_limit(p)
    \/ \E p \in Procs : create_commit(p)
    \/ \E p \in Procs : get_session(p)
    \/ \E p \in Procs : refresh_session(p, Devices, MaxRotations)
    \/ \E p \in Procs : session_refresh(p, MaxRotations)
    \/ \E p \in Procs : logout(p)
    \/ \E p \in Procs : mark_expired(p)
    \/ Tick(ExpirySteps, MaxRefreshTicks)

SpecRefresh == Init /\ [][NextRefresh]_vars

\* Authentication of requests, one request at a time: tokens of up to MaxSessions
\* sessions of up to MaxUsers users presented to load_current_user_session.
NextLoad ==
    \/ \E p \in OneProc : register(p, Emails, Usernames, OnePassword, OneDevice, MaxSessions)
    \/ \E p \in OneProc : login(p, Emails, Passwords, OneDevice, MaxSessions)
    \/ \E p \in OneProc : free_active_sessions_limit(p)
    \/ \E p \in OneProc : create_commit(p)
    \/ \E p \in OneProc : logout(p)
    \/ \E p \in OneProc : mark_expired(p)
    \/ \E p \in OneProc : load_current_user_session(p)
    \/ Tick(ExpirySteps, MaxTicks)

SpecLoad == Init /\ [][NextLoad]_vars

\* ------------------------------------------------------------------ claims

\* Accounts: users created, registered, updated, replaced, deactivated and
\* deleted, and their logins, one request at a time.
NextUsers ==
    \/ \E p \in OneProc : user_create(p, CreateUserDTOs)
    \/ \E p \in OneProc : register(p, Emails, Usernames, OnePassword, OneDevice, MaxAccountSessions)
    \/ \E p \in OneProc : login(p, Emails, Passwords, OneDevice, MaxAccountSessions)
    \/ \E p \in OneProc : free_active_sessions_limit(p)
    \/ \E p \in OneProc : create_commit(p)
    \/ \E p \in OneProc : user_update(p, 1 .. MaxUsers, UpdateUserDTOs, ReplaceUserDTOs)
    \/ \E p \in OneProc : soft_delete(p, 1 .. MaxUsers)
    \/ \E p \in OneProc : hard_delete(p, 1 .. MaxUsers)

SpecUsers == Init /\ [][NextUsers]_vars

\* Tokens and the status of one session, one request at a time: revocation,
\* refresh requests and authentication with every token issued, before and
\* after the tokens and the session expire.
NextTokens ==
    \/ \E p \in OneProc : register(p, OneEmail, OneUsername, OnePassword, OneDevice, MaxRefreshSessions)
    \/ \E p \in OneProc : free_active_sessions_limit(p)
    \/ \E p \in OneProc : create_commit(p)
    \/ \E p \in OneProc : session_revoke(p, 1 .. MaxSessions)
    \/ \E p \in OneProc : get_session(p)
    \/ \E p \in OneProc : refresh_session(p, Devices, MaxRotations)
    \/ \E p \in OneProc : load_current_user_session(p)
    \/ Tick(ExpirySteps, MaxTicks)

SpecTokens == Init /\ [][NextTokens]_vars

\* The life of one session, one request at a time: created, used, refreshed
\* through SessionService.refresh, revoked, marked expired and asked whether it
\* is valid, before, at and after its expires_at.
NextLifetime ==
    \/ \E p \in OneProc : register(p, OneEmail, OneUsername, OnePassword, OneDevice, MaxRefreshSessions)
    \/ \E p \in OneProc : free_active_sessions_limit(p)
    \/ \E p \in OneProc : create_commit(p)
    \/ \E p \in OneProc : get_session(p)
    \/ \E p \in OneProc : session_refresh(p, MaxRotations)
    \/ \E p \in OneProc : session_revoke(p, 1 .. MaxRefreshSessions)
    \/ \E p \in OneProc : mark_expired(p)
    \/ \E p \in OneProc : mark_used(p)
    \/ \E p \in OneProc : session_is_valid(p)
    \/ Tick(LifetimeSteps, MaxLifetimeTicks)

SpecLifetime == Init /\ [][NextLifetime]_vars

\* Session creations of one user by two callers at the same time, each inside
\* its transaction, which commits or fails.
NextCreate ==
    \/ \E p \in Procs : register(p, OneEmail, OneUsername, OnePassword, OneDevice, MaxLimitSessions)
    \/ \E p \in Procs : login(p, OneEmail, OnePassword, OneDevice, MaxLimitSessions)
    \/ \E p \in Procs : free_active_sessions_limit(p)
    \/ \E p \in Procs : create_commit(p)
    \/ \E p \in Procs : create_abort(p)
    \/ Tick(MinuteSteps, MaxLimitTicks)

SpecCreate == Init /\ [][NextCreate]_vars

\* The same under the scheduling of an asyncio event loop over a database that
\* answers: a statement that can run is run, a transaction that can commit
\* commits.
FairCreate ==
    /\ SpecCreate
    /\ \A p \in Procs : WF_vars(free_active_sessions_limit(p))
    /\ \A p \in Procs : WF_vars(create_commit(p))

\* C1: in every committed state each user has at most max_active_sessions (5)
\* sessions with status active, whatever the interleaving of session creations.
C1_ActiveSessionsWithinLimit ==
    \A u \in UserIds : count_active_sessions_per_user(u) <= max_active_sessions

\* C2: when a session creation commits for a user who had exactly five active
\* sessions, all five seen by its eviction query, exactly one of the five becomes
\* revoked, it is one with the smallest last_used_at, the other four stay active
\* and the new session is active.
C2_EvictsLeastRecentlyUsed ==
    [][\A p \in Procs :
        LET pre == ActiveOf(sessions, procs[p].user_id) IN
        (/\ procs[p].pc = "add" /\ procs'[p].pc = "done"
         /\ Cardinality(pre) = max_active_sessions
         /\ procs[p].locked = pre)
        => \E s \in pre :
              /\ sessions'[s].status = "revoked"
              /\ \A x \in pre : sessions[s].last_used_at <= sessions[x].last_used_at
              /\ \A x \in pre \ {s} : sessions'[x].status = "active"
              /\ sessions'[nextSid].status = "active"]_vars

\* C3: a refresh token that was rotated out of a session and is presented to
\* refresh_session for that session fails with InvalidSessionError and leaves the
\* stored session revoked.
C3_StaleTokenRevokesSession ==
    [][\A p \in Procs :
        LET session == procs[p].snap
            token == procs'[p].presented
        IN (/\ procs[p].pc = "loaded"
            /\ procs'[p].pc = "done" /\ procs'[p].op = "refresh_session"
            /\ token.sid = session.id
            /\ token # sessions[session.id].refresh_token_hash.token
            /\ \E h \in past_hashes[session.id] : h.token = token)
           => /\ procs'[p].result.err = "InvalidSessionError"
              /\ sessions'[session.id].status = "revoked"]_vars

C3_StaleTokenPresented ==
    \E p \in Procs :
        /\ procs[p].pc = "done" /\ procs[p].op = "refresh_session"
        /\ procs[p].presented.sid = procs[p].snap.id
        /\ procs[p].presented # sessions[procs[p].snap.id].refresh_token_hash.token
        /\ \E h \in past_hashes[procs[p].snap.id] : h.token = procs[p].presented
        /\ procs[p].result.err = "InvalidSessionError"
        /\ sessions[procs[p].snap.id].status = "revoked"

\* C4: refresh_session with the refresh token the session currently holds, called
\* by the owner for a session that is active and not expired, from a device with
\* the recorded fingerprint, returns a new token pair, stores the hash of the new
\* refresh token and leaves the session active.
C4_CurrentTokenRefreshSucceeds ==
    [][\A p \in Procs :
        LET session == procs[p].snap
            token == procs'[p].presented
        IN (/\ procs[p].pc = "loaded"
            /\ procs'[p].pc = "done" /\ procs'[p].op = "refresh_session"
            /\ sessions[session.id] = session
            /\ session.status = "active"
            /\ now <= session.expires_at
            /\ procs[p].user_id = session.user_id
            /\ token = session.refresh_token_hash.token
            /\ now < token.exp
            /\ fingerprint(procs'[p].device_info) = fingerprint(session.device_info))
           => /\ procs'[p].result.kind = "ok"
              /\ procs'[p].result.access_token.type = "access"
              /\ procs'[p].result.refresh_token.type = "refresh"
              /\ sessions'[session.id].refresh_token_hash.token
                    = procs'[p].result.refresh_token
              /\ sessions'[session.id].status = "active"]_vars

\* C5: refresh_session from a device whose fingerprint differs from the one recorded
\* on the session raises InvalidSessionError, and the stored session is revoked
\* when the error is raised.
C5_FingerprintMismatchRevokes ==
    [][\A p \in Procs :
        LET session == procs[p].snap IN
        (/\ procs[p].pc = "loaded"
         /\ procs'[p].pc = "done" /\ procs'[p].op = "refresh_session"
         /\ fingerprint(procs'[p].device_info) # fingerprint(session.device_info))
        => /\ procs'[p].result.err = "InvalidSessionError"
           /\ sessions'[session.id].status = "revoked"]_vars

C5_OtherDeviceRefused ==
    \E p \in Procs :
        /\ procs[p].pc = "done" /\ procs[p].op = "refresh_session"
        /\ procs[p].snap.status = "active"
        /\ procs[p].presented = procs[p].snap.refresh_token_hash.token
        /\ fingerprint(procs[p].device_info) # fingerprint(procs[p].snap.device_info)
        /\ procs[p].result.err = "InvalidSessionError"
        /\ sessions[procs[p].snap.id].status = "revoked"

\* C6: a successful refresh stores a refresh_token_hash that differs from the one
\* it replaces and from every hash the session held before.
C6_HashNeverRepeats ==
    [][\A p \in Procs :
        LET id == procs[p].snap.id IN
        (/\ procs[p].pc = "loaded"
         /\ procs'[p].pc = "done" /\ procs'[p].op \in {"refresh", "refresh_session"}
         /\ procs'[p].result.kind = "ok")
        => /\ sessions'[id].refresh_token_hash # sessions[id].refresh_token_hash
           /\ sessions'[id].refresh_token_hash \notin past_hashes[id]
           /\ sessions[id].refresh_token_hash \in past_hashes'[id]]_vars

C6_TwiceRefreshed ==
    \E p \in Procs :
        /\ procs[p].pc = "done" /\ procs[p].op = "refresh"
        /\ procs[p].result.kind = "ok"
        /\ Cardinality(past_hashes[procs[p].snap.id]) = MaxRotations
        /\ sessions[procs[p].snap.id].refresh_token_hash
              \notin past_hashes[procs[p].snap.id]

\* C7: of two refresh_session calls that hold the same session in the same state
\* and present the same refresh token, at most one succeeds.
C7_AtMostOneRefreshSucceeds ==
    \A p, q \in Procs :
        (/\ p # q
         /\ procs[p].pc = "done" /\ procs[p].op = "refresh_session"
         /\ procs[q].pc = "done" /\ procs[q].op = "refresh_session"
         /\ procs[p].snap = procs[q].snap
         /\ procs[p].presented = procs[q].presented)
        => ~(procs[p].result.kind = "ok" /\ procs[q].result.kind = "ok")

C7_TwoCallsSameToken ==
    \E p, q \in Procs :
        /\ p # q
        /\ procs[p].pc = "done" /\ procs[p].op = "refresh_session"
        /\ procs[q].pc = "done" /\ procs[q].op = "refresh_session"
        /\ procs[p].snap = procs[q].snap
        /\ procs[p].snap.status = "active"
        /\ procs[p].presented = procs[q].presented
        /\ procs[p].presented = procs[p].snap.refresh_token_hash.token
        /\ procs[p].device_info = procs[q].device_info
        /\ fingerprint(procs[p].device_info) = fingerprint(procs[p].snap.device_info)
        /\ procs[p].result.kind = "error" /\ procs[q].result.kind = "error"

\* C8: a session whose stored status is expired, revoked or invalid does not have
\* status active in the next state, and so in no later state.
C8_TerminalStatusStays ==
    [][\A s \in SessionIds :
        sessions[s].status \in {"expired", "revoked", "invalid"}
        => sessions'[s].status # "active"]_vars

\* C9: load_current_user_session returns a user and a session only for an issued,
\* unexpired access token whose user exists, is active and has a login method, and
\* whose session exists, is active, is not past expires_at and belongs to that user.
C9_PairOnlyForValidRequest ==
    [][\A p \in Procs :
        LET token == procs'[p].presented IN
        (/\ Ready(p) /\ procs'[p] # procs[p]
         /\ procs'[p].op = "load_current_user_session"
         /\ procs'[p].result.kind = "ok")
        => /\ token \in issued
           /\ token.type = "access"
           /\ now < token.exp
           /\ token.sub \in UserIds
           /\ users[token.sub].is_active
           /\ (can_local_login(users[token.sub]) \/ can_oauth_login(users[token.sub]))
           /\ token.sid \in SessionIds
           /\ sessions[token.sid].status = "active"
           /\ now <= sessions[token.sid].expires_at
           /\ sessions[token.sid].user_id = token.sub
           /\ procs'[p].result.user = users[token.sub]
           /\ procs'[p].result.session = sessions[token.sid]]_vars

C9_RevokedSessionRefused ==
    \E p \in Procs :
        /\ procs[p].pc = "done" /\ procs[p].op = "load_current_user_session"
        /\ procs[p].presented.type = "access"
        /\ now < procs[p].presented.exp
        /\ sessions[procs[p].presented.sid].status = "revoked"
        /\ procs[p].result.kind = "error"
        /\ procs[p].result.user = NoUser /\ procs[p].result.session = NoSession

\* C10: the tokens returned by register and login are distinct and carry the id of
\* the user and of the new session, and the access token, presented to
\* load_current_user_session while the session is valid and the user can log in,
\* gives back that user and that session.
C10_IssuedAccessTokenLoads ==
    [][\A p \in Procs :
        LET token == procs'[p].presented IN
        (/\ Ready(p) /\ procs'[p] # procs[p]
         /\ procs'[p].op = "load_current_user_session"
         /\ token.type = "access"
         /\ now < token.exp
         /\ can_login(users[token.sub])
         /\ is_valid(sessions[token.sid], now)
         /\ sessions[token.sid].user_id = token.sub)
        => /\ procs'[p].result.kind = "ok"
           /\ procs'[p].result.user = users[token.sub]
           /\ procs'[p].result.session = sessions[token.sid]]_vars

\* C11: login raises UserNotFoundError when no user has the email, otherwise
\* UserPasswordNotConfiguredError when the user has no password_hash, otherwise
\* InvalidPasswordError when the password is not the one of the hash, and calls
\* init_session only when none of the three applies.
C11_LoginErrorsInOrder ==
    [][\A p \in {q \in Procs : procs'[q].op = "login"},
          email \in Emails, password \in Passwords :
        login(p, {email}, {password}, OneDevice, MaxAccountSessions)
        => LET user == get_by_email(email) IN
           IF user = NoUser
           THEN procs'[p].result.err = "UserNotFoundError"
           ELSE IF user.password_hash = NoPasswordHash
           THEN procs'[p].result.err = "UserPasswordNotConfiguredError"
           ELSE IF user.password_hash # generate_password_hash(password)
           THEN procs'[p].result.err = "InvalidPasswordError"
           ELSE /\ procs'[p].pc = "create"
                /\ procs'[p].result = NoResult
                /\ procs'[p].dto.user_id = user.id]_vars

C11_OAuthOnlyLoginRefused ==
    \E p \in Procs :
        /\ procs[p].pc = "done" /\ procs[p].op = "login"
        /\ procs[p].user_id \in UserIds
        /\ users[procs[p].user_id].password_hash = NoPasswordHash
        /\ users[procs[p].user_id].oauth_provider # None
        /\ procs[p].result.err = "UserPasswordNotConfiguredError"

\* C12: a login with an unknown email, for a user without password_hash, or with
\* a wrong password ends at once with an error; it creates no session, revokes
\* none and changes no field of any session or user.
C12_FailedLoginChangesNothing ==
    [][\A p \in {q \in Procs : procs'[q].op = "login"},
          email \in Emails, password \in Passwords :
        LET user == get_by_email(email) IN
        (/\ login(p, {email}, {password}, OneDevice, MaxAccountSessions)
         /\ \/ user = NoUser
            \/ user.password_hash = NoPasswordHash
            \/ user.password_hash # generate_password_hash(password))
        => /\ procs'[p].pc = "done"
           /\ procs'[p].result.kind = "error"
           /\ procs'[p].locked = {} /\ procs'[p].to_revoke = 0
           /\ sessions' = sessions
           /\ users' = users
           /\ nextSid' = nextSid
           /\ issued' = issued]_vars

C12_WrongPasswordWithSession ==
    \E p \in Procs :
        /\ procs[p].pc = "done" /\ procs[p].op = "login"
        /\ procs[p].result.err = "InvalidPasswordError"
        /\ ActiveOf(sessions, procs[p].user_id) # {}
        /\ nextSid = Cardinality(SessionIds) + 1

\* C13: revoke(session_id) for a session that is already revoked raises nothing
\* and leaves the stored row as it was: status revoked, revoked_at the time of
\* the first revocation.
C13_RevokeTwiceSameState ==
    [][\A p \in Procs, sid \in SessionIds :
        (session_revoke(p, {sid}) /\ sessions[sid].status = "revoked")
        => /\ procs'[p].result.kind = "ok"
           /\ procs'[p].result.session = sessions[sid]
           /\ sessions'[sid].status = "revoked"
           /\ sessions'[sid].revoked_at = sessions[sid].revoked_at
           /\ sessions' = sessions]_vars

C13_RevokedAgainLater ==
    \E p \in Procs :
        /\ procs[p].pc = "done" /\ procs[p].op = "revoke"
        /\ procs[p].snap.status = "revoked"
        /\ procs[p].result.kind = "ok"
        /\ procs[p].result.session.status = "revoked"
        /\ procs[p].result.session.revoked_at # <<>>
        /\ procs[p].result.session.revoked_at[1] < procs[p].at

\* C14: logout leaves the stored status of the session revoked, and a later
\* load_current_user_session with an unexpired access token of that session, the
\* session still revoked, fails with InvalidSessionError.
C14_LoggedOutSessionRefused ==
    [][\A p \in Procs :
        LET token == procs'[p].presented IN
        /\ (procs'[p] # procs[p] /\ procs'[p].op = "logout")
           => sessions'[procs'[p].snap.id].status = "revoked"
        /\ (/\ Ready(p) /\ procs'[p] # procs[p]
            /\ procs'[p].op = "load_current_user_session"
            /\ token.type = "access"
            /\ now < token.exp
            /\ sessions[token.sid].status = "revoked")
           => procs'[p].result.err = "InvalidSessionError"]_vars

C16_RegisteredUserCanLogin ==
    [][\A p \in Procs :
        (/\ procs'[p].op = "register"
         /\ Ready(p) /\ procs'[p].pc = "create"
         /\ nextUid' = nextUid + 1)
        => /\ nextUid \notin UserIds
           /\ users'[nextUid].is_active
           /\ users'[nextUid].password_hash # NoPasswordHash
           /\ users'[nextUid].username # None
           /\ can_login(users'[nextUid])
           /\ procs'[p].user_id = nextUid]_vars

C16_UserJustRegistered ==
    \E p \in Procs :
        /\ procs[p].op = "register" /\ procs[p].pc = "create"
        /\ procs[p].user_id = nextUid - 1
        /\ can_login(users[procs[p].user_id])
        /\ SessionsOf(sessions, procs[p].user_id) = {}

\* C17: creating a user whose email or username is that of an existing user, by
\* UserService.create or by register, fails with ResourceAlreadyExistsError,
\* stores no user, changes no user and creates no session.
C17_DuplicateUserAlreadyExists ==
    [][\A p \in Procs :
        (/\ Ready(p) /\ procs'[p] # procs[p] /\ procs'[p].pc = "done"
         /\ \/ procs'[p].op = "register"
            \/ /\ procs'[p].op = "create"
               /\ validate_auth_method(procs'[p].udto)
               /\ unique_violation(users, insert_values(nextUid, procs'[p].udto)))
        => /\ procs'[p].result.err = "ResourceAlreadyExistsError"
           /\ users' = users
           /\ sessions' = sessions
           /\ nextSid' = nextSid]_vars

\* C18: an unexpired access token decoded as a refresh token, and an unexpired
\* refresh token decoded as an access token, fail as invalid; refresh_session
\* given an access token and load_current_user_session given a refresh token
\* fail.
C18_TokenKindsNotInterchangeable ==
    /\ \A token \in issued :
          now < token.exp
          => /\ token.type = "access"
                => /\ decode_access_token(token, now) = Decoded(token)
                   /\ decode_refresh_token(token, now) = DecodeError("Invalid token type")
             /\ token.type = "refresh"
                => /\ decode_refresh_token(token, now) = Decoded(token)
                   /\ decode_access_token(token, now) = DecodeError("Invalid token type")
    /\ \A p \in Procs :
          /\ (/\ procs[p].pc = "done" /\ procs[p].op = "load_current_user_session"
              /\ procs[p].presented.type = "refresh")
             => procs[p].result.err = "InvalidCredentialsError"
          /\ (/\ procs[p].pc = "done" /\ procs[p].op = "refresh_session"
              /\ procs[p].presented.type = "access")
             => procs[p].result.kind = "error"

C18_RefreshTokenAsAccessToken ==
    \E p \in Procs :
        /\ procs[p].pc = "done" /\ procs[p].op = "load_current_user_session"
        /\ procs[p].presented.type = "refresh"
        /\ now < procs[p].presented.exp
        /\ is_valid(sessions[procs[p].presented.sid], now)
        /\ procs[p].result.err = "InvalidCredentialsError"

\* C19: load_current_user_session given an access token whose expiry has
\* passed reports an outcome different from the one it reports for any token
\* that decode_access_token refuses as invalid.
C19_ExpiredReportedApartFromInvalid ==
    [][\A p \in Procs :
        (/\ Ready(p) /\ procs'[p] # procs[p]
         /\ procs'[p].op = "load_current_user_session"
         /\ procs'[p].presented.type = "access"
         /\ decode_access_token(procs'[p].presented, now) = DecodeError("Token has expired"))
        => \A other \in issued :
              decode_access_token(other, now).error \in {"Invalid token", "Invalid token type"}
              => load_result(other, now) # procs'[p].result]_vars

\* C20: every session's user_id refers to an existing user, and a hard_delete
\* of a user who owns sessions succeeds and removes the user together with all
\* of that user's sessions.
C20_HardDeleteRemovesSessions ==
    /\ [](\A s \in SessionIds : sessions[s].user_id \in UserIds)
    /\ [][\A p \in Procs :
            (/\ Ready(p) /\ procs'[p] # procs[p]
             /\ procs'[p].op = "hard_delete"
             /\ procs'[p].user_id \in UserIds
             /\ SessionsOf(sessions, procs'[p].user_id) # {})
            => /\ procs'[p].result.kind = "ok"
               /\ procs'[p].user_id \notin DOMAIN users'
               /\ SessionsOf(sessions', procs'[p].user_id) = {}]_vars

\* C21: a session whose stored status is revoked has status revoked in the next
\* state, with the same revoked_at, whatever operation acts on it.
C21_RevokedStaysRevoked ==
    [][\A s \in SessionIds :
        sessions[s].status = "revoked"
        => /\ sessions'[s].status = "revoked"
           /\ sessions'[s].revoked_at = sessions[s].revoked_at]_vars

\* C24: when a refresh of a session succeeds, the stored expires_at is later than
\* it was before the call and last_used_at is the time of the refresh.
C24_RefreshExtendsExpiry ==
    [][\A p \in Procs :
        (/\ procs[p].pc = "loaded" /\ procs'[p].pc = "done"
         /\ procs'[p].op \in {"refresh", "refresh_session"}
         /\ procs'[p].result.kind = "ok")
        => LET id == procs[p].snap.id IN
           /\ sessions'[id].expires_at > sessions[id].expires_at
           /\ sessions'[id].last_used_at = now]_vars

\* C25: after any number of refreshes, the expires_at of every session is at
\* most its created_at plus SESSION_EXPIRE_DAYS.
C25_LifetimeBounded ==
    \A s \in SessionIds :
        sessions[s].expires_at <= sessions[s].created_at + timedelta(SESSION_EXPIRE_DAYS, 0)

C25_RefreshedLater ==
    \E s \in SessionIds :
        /\ Rotations(s) >= 1
        /\ sessions[s].last_used_at > sessions[s].created_at
        /\ now > sessions[s].created_at + timedelta(REFRESH_TOKEN_EXPIRE_DAYS, 0)

\* C26: SessionService.refresh called with a session whose expires_at is earlier
\* than now raises SessionExpiredError and the sessions table stays as it was.
C26_ExpiredRefreshChangesNothing ==
    [][\A p \in Procs :
        (/\ procs[p].pc = "loaded" /\ procs'[p].pc = "done"
         /\ procs'[p].op = "refresh"
         /\ procs[p].snap.expires_at < now)
        => /\ procs'[p].result.err = "SessionExpiredError"
           /\ sessions' = sessions
           /\ past_hashes' = past_hashes]_vars

C26_RefreshAfterExpiry ==
    \E p \in Procs :
        /\ procs[p].pc = "done" /\ procs[p].op = "refresh"
        /\ procs[p].snap.id \in SessionIds
        /\ procs[p].snap.status = "active"
        /\ procs[p].snap.expires_at < now
        /\ procs[p].result.err = "SessionExpiredError"

\* C27: is_valid() of a session at a time is true exactly when the status is
\* active and the time is earlier than expires_at.
C27_ValidIffActiveAndBeforeExpiry ==
    \A p \in Procs :
        (procs[p].pc = "done" /\ procs[p].op = "is_valid")
        => (procs[p].result.valid
            <=> (procs[p].snap.status = "active" /\ procs[p].at < procs[p].snap.expires_at))

\* C28: for every session, user, token and pair of devices that agree on
\* device_type, os and browser, the device check, the outcome of the validation
\* of a refresh request and the status refresh_session leaves on the session are
\* the same for both devices.
C28_DeviceCheckIgnoresAddress ==
    \A s \in SessionIds, uid \in UserIds, refresh_token \in issued, d1 \in AllDevices, d2 \in AllDevices :
        LET valid(d) == validate_refresh_request(sessions[s], uid, refresh_token, d, nextSalt, now)
            new_hash == generate_token_hash(
                            create_refresh_token(sessions[s].user_id, s, now), nextSalt)
            status_after(d) ==
                IF valid(d) = "False" THEN revoke(sessions, s, now)[s].status
                ELSE IF valid(d) = "True"
                THEN refresh(sessions, sessions[s], new_hash,
                             refresh_token_timedelta, now).store[s].status
                ELSE sessions[s].status
        IN (/\ d1.device_type = d2.device_type
            /\ d1.os = d2.os
            /\ d1.browser = d2.browser)
           => /\ matches_device_fingerprint(sessions[s], d1)
                    = matches_device_fingerprint(sessions[s], d2)
              /\ valid(d1) = valid(d2)
              /\ status_after(d1) = status_after(d2)

C28_SameDeviceOtherAddress ==
    \E p \in Procs :
        /\ procs[p].pc = "done" /\ procs[p].op = "refresh_session"
        /\ procs[p].snap.id \in SessionIds
        /\ procs[p].device_info # procs[p].snap.device_info
        /\ procs[p].device_info.ip_address # procs[p].snap.device_info.ip_address
        /\ procs[p].device_info.device_type = procs[p].snap.device_info.device_type
        /\ procs[p].device_info.os = procs[p].snap.device_info.os
        /\ procs[p].device_info.browser = procs[p].snap.device_info.browser

\* C29: when the session creation of a login commits, the user of the login is
\* active and satisfies can_login(); so does the user when login starts the
\* creation.
C29_LoginOnlyForActiveUser ==
    [][\A p \in Procs :
        /\ (/\ Ready(p) /\ procs'[p].op = "login" /\ procs'[p].pc = "create")
           => /\ user_get_by_id(procs'[p].user_id).is_active
              /\ can_login(user_get_by_id(procs'[p].user_id))
        /\ (/\ procs[p].op = "login" /\ procs[p].pc = "add" /\ procs'[p].pc = "done")
           => /\ user_get_by_id(procs[p].user_id).is_active
              /\ can_login(user_get_by_id(procs[p].user_id))]_vars

C23_ConcurrentLoginsComplete ==
    /\ [](\A p \in Procs, q \in Procs :
            (p # q /\ procs[p].pc = "add" /\ procs[q].pc = "add")
            => /\ procs[p].locked \cap procs[q].locked = {}
               /\ procs[p].to_revoke = 0 \/ procs[p].to_revoke # procs[q].to_revoke)
    /\ \A p \in Procs :
          (procs[p].pc \in {"create", "add"}) ~> (procs[p].pc = "done")

C23_OneEvictsOtherSkips ==
    \E p \in Procs, q \in Procs :
        /\ p # q /\ procs[p].pc = "add" /\ procs[q].pc = "add"
        /\ procs[p].to_revoke # 0
        /\ procs[q].to_revoke = 0
        /\ Cardinality(ActiveOf(sessions, procs[q].user_id)) >= max_active_sessions

\* C30: a register that ends with an error leaves no user row of that call in the
\* users table, and when a register ends with success its user has exactly one
\* active session.
C30_RegisterAllOrNothing ==
    [][\A p \in Procs :
        (/\ ~Ready(p) /\ procs[p].op = "register" /\ procs'[p].pc = "done")
        => /\ procs'[p].result.kind = "error"
                => procs[p].user_id \notin DOMAIN users'
           /\ procs'[p].result.kind = "ok"
                => Cardinality(ActiveOf(sessions', procs[p].user_id)) = 1]_vars

====
